---- MODULE Spec2Model ----
(***************************************************************************)
(* Media-Review-System: the SQLite store (users, media, reviews,           *)
(* favorites, alerts), the Redis entry "media_list", and the operations of *)
(* media_review.py.  The schema is the one media_review.py creates when it *)
(* is imported on a fresh database; init.py, run afterwards, adds the      *)
(* favorites table.  Foreign keys are declared but never enforced (no      *)
(* PRAGMA foreign_keys), so no delete cascades.                            *)
(*                                                                         *)
(* Every `with DatabaseConnection()` block is one SQLite transaction on a  *)
(* connection of its own.  A block that writes holds the database's write  *)
(* lock from its first INSERT/DELETE to the commit in __exit__; other      *)
(* writers wait for it, readers keep reading the committed rows.  The      *)
(* single-statement handlers are one step each; a review worker is one     *)
(* step per statement, its uncommitted rows kept in the worker.  A writer  *)
(* that finds the lock taken waits (sqlite3's busy timeout); the model     *)
(* takes every wait to end before the timeout, the transactions being a    *)
(* few statements long.                                                    *)
(***************************************************************************)
EXTENDS Integers, Sequences, FiniteSets, TLC

VARIABLES
    users,          \* table users: set of rows [id, username, password]
    userSeq,        \* AUTOINCREMENT counter of users
    media,          \* table media: set of rows [id, title, type]
    mediaSeq,       \* AUTOINCREMENT counter of media
    favoritesTable, \* TRUE once init.py has created table favorites
    favorites,      \* table favorites: sequence of rows [id, user_id, media_id]
    reviews,        \* table reviews (committed): sequence of rows
    alerts,         \* table alerts (committed): sequence of rows
    writer,         \* index of the worker holding the write lock, 0 if free
    call,           \* the add_review call in flight (main thread)
    workers,        \* the threads started by the call, in start order
    cache,          \* Redis keyspace: set of entries [key, value, ttl]
    out,            \* what the last list_media call printed
    sinceList,      \* time since the last list_media call (capped at TTL)
    alertsOut,      \* what the last get_alerts call printed
    redis,          \* the Redis server: "up", "down" or "full"
    schema,         \* which script created the tables: "media_review" or "init"
    adding,         \* add_media calls between their SELECT and their INSERT
    favOut          \* how the last add_favorite call ended

vars == <<users, userSeq, media, mediaSeq, favoritesTable, favorites, reviews,
          alerts, writer, call, workers, cache, out, sinceList, alertsOut,
          redis, schema, adding, favOut>>

(***************************************************************************)
(* Bounds of the model                                                     *)
(***************************************************************************)
MaxUsers == 2
MaxMedia == 2
MaxBatch == 2
MaxReviews == 2
MaxFavorites == 2
TickStep == 20
MaxAdding == 2

(***************************************************************************)
(* Program constants and input domains                                     *)
(***************************************************************************)
TTL == 60
NoneVal == -1       \* Python None / SQL NULL, for an integer argument

UserIds == 1..MaxUsers
MediaIds == 1..MaxMedia
Usernames == {"ann", "bob"}
Passwords == {"pw"}
Titles == {"A", "B"}
Types == {"Movie", "Cartoon", "Podcast"}
Ratings == {NoneVal, 4}
Comments == {"ok"}
Limits == {"all", "1"}

Items == [media_id : MediaIds, rating : Ratings, comment : Comments]
Batches == UNION {[1..n -> Items] : n \in 0..MaxBatch}

\* the ratings of the scale and its two neighbours
RatingsTried == 0..6
ItemsTried == [media_id : MediaIds, rating : RatingsTried, comment : Comments]
BatchesTried == UNION {[1..n -> ItemsTried] : n \in 0..MaxBatch}

Min(a, b) == IF a < b THEN a ELSE b

RECURSIVE Gcd(_, _)
Gcd(a, b) == IF b = 0 THEN a ELSE Gcd(b, a % b)

(***************************************************************************)
(* The store: queries                                                      *)
(***************************************************************************)
\* mutant: the up-front check accepts every id
UserExistsAlways(u) == TRUE

UserExists(u) == \E r \in users : r.id = u

TitleExists(t) == \E r \in media : r.title = t

UsernameExists(n) == \E r \in users : r.username = n

FavoriteExists(u, m) ==
    \E i \in DOMAIN favorites : favorites[i].user_id = u /\ favorites[i].media_id = m

RECURSIVE SortById(_)
SortById(S) ==
    IF S = {} THEN <<>>
    ELSE LET r == CHOOSE x \in S : \A y \in S : x.id <= y.id
         IN <<r>> \o SortById(S \ {r})

RECURSIVE SumRatings(_, _)
SumRatings(rows, m) ==
    IF rows = <<>> THEN 0
    ELSE (IF Head(rows).media_id = m THEN Head(rows).rating ELSE 0)
         + SumRatings(Tail(rows), m)

CountRatings(rows, m) == Cardinality({i \in DOMAIN rows : rows[i].media_id = m})

NoRatings == <<"No Ratings">>

\* mutant: AVG(r.rating) without IFNULL: NULL for a media item without reviews
AvgRatingWithoutIfNull(rows, m) ==
    LET n == CountRatings(rows, m)
        s == SumRatings(rows, m)
        g == Gcd(s, n)
    IN IF n = 0 THEN <<"None">> ELSE <<s \div g, n \div g>>

\* IFNULL(AVG(r.rating), 'No Ratings'): the quotient, kept as a reduced fraction
AvgRating(rows, m) ==
    LET n == CountRatings(rows, m)
        s == SumRatings(rows, m)
        g == Gcd(s, n)
    IN IF n = 0 THEN NoRatings ELSE <<s \div g, n \div g>>

\* media LEFT JOIN reviews GROUP BY m.id: one row per media item, by id
CatalogQuery(ms, rows) ==
    LET sorted == SortById(ms)
    IN [i \in DOMAIN sorted |->
          <<sorted[i].id, sorted[i].title, sorted[i].type, AvgRating(rows, sorted[i].id)>>]

IntOf(limit) == CASE limit = "1" -> 1 [] limit = "2" -> 2 [] limit = "3" -> 3

LimitedQuery(limit, ms, rows) ==
    LET all == CatalogQuery(ms, rows)
    IN IF limit = "all" THEN all ELSE SubSeq(all, 1, Min(IntOf(limit), Len(all)))

(***************************************************************************)
(* Media taxonomy                                                          *)
(***************************************************************************)
MediaClasses == {"Movie", "WebShow", "Song"}

ValidTypes == {"Movie", "WebShow", "Song", "Cartoon"}

\* create_media(title, type) raises when the type has no class: the fallback
\* instantiates the abstract class Media
CreateMediaRaises(type) == type \notin MediaClasses

GetDetails(title, type) == <<type, ": ", title>>

Headers == <<"ID", "Media Details", "Avg Rating">>

Tabulate(results) ==
    <<Headers>> \o [i \in DOMAIN results |->
                      <<results[i][1], GetDetails(results[i][2], results[i][3]), results[i][4]>>]

RenderRaises(results) == \E i \in DOMAIN results : CreateMediaRaises(results[i][3])

(***************************************************************************)
(* Cache (Redis): get, set with ex=60, expiry                              *)
(* Redis expires lazily: an entry whose time has run out stays in the      *)
(* keyspace with ttl 0 and is no longer returned by get.                   *)
(***************************************************************************)
Live(e) == e.ttl > 0

CacheGet(key) ==
    IF \E e \in cache : e.key = key /\ Live(e)
    THEN (CHOOSE e \in cache : e.key = key /\ Live(e)).value
    ELSE <<>>

CacheSet(key, value, ex) ==
    {e \in cache : e.key # key} \cup {[key |-> key, value |-> value, ttl |-> ex]}

Expire(c, d) == {[e EXCEPT !.ttl = IF e.ttl > d THEN e.ttl - d ELSE 0] : e \in c}

\* The client connects on each command.  A server that is down refuses every
\* command (ConnectionError); a server that is full, or a read-only replica,
\* answers get and refuses set (ResponseError).
RedisStates == {"up", "down", "full"}

CacheGetRaises == redis = "down"

CacheSetRaises == redis # "up"

(***************************************************************************)
(* Initial states                                                          *)
(***************************************************************************)
NoCall == [pc |-> "idle", ret |-> "none", user_id |-> 0, items |-> <<>>, i |-> 0, base |-> 0]

NoOutput == [limit |-> "none", kind |-> "none", text |-> <<>>]

\* media_review.py imported on a fresh database, Redis empty
Fresh ==
    /\ users = {}
    /\ userSeq = 0
    /\ media = {}
    /\ mediaSeq = 0
    /\ favoritesTable = FALSE
    /\ favorites = <<>>
    /\ reviews = <<>>
    /\ alerts = <<>>
    /\ writer = 0
    /\ call = NoCall
    /\ workers = <<>>
    /\ cache = {}
    /\ out = NoOutput
    /\ sinceList = TTL
    /\ alertsOut = <<>>
    /\ redis = "up"
    /\ schema = "media_review"
    /\ adding = <<>>
    /\ favOut = "none"

(***************************************************************************)
(* init.py, users, media, favorites                                        *)
(***************************************************************************)
\* init.py: CREATE TABLE IF NOT EXISTS favorites (the other tables exist)
RunInitPy ==
    /\ writer = 0
    /\ favoritesTable' = TRUE
    /\ UNCHANGED <<users, userSeq, media, mediaSeq, favorites, reviews, alerts,
                   writer, call, workers, cache, out, sinceList, alertsOut,
                   redis, schema, adding, favOut>>

\* the users table of init.py has no column password
UserInsertFails(name) == schema = "init" \/ UsernameExists(name)

\* add_user: username is UNIQUE; an INSERT that fails raises and nothing is written
AddUser(name, pw) ==
    /\ writer = 0
    /\ userSeq < MaxUsers
    /\ IF UserInsertFails(name)
       THEN UNCHANGED <<users, userSeq>>
       ELSE /\ users' = users \cup {[id |-> userSeq + 1, username |-> name, password |-> pw]}
            /\ userSeq' = userSeq + 1
    /\ UNCHANGED <<media, mediaSeq, favoritesTable, favorites, reviews, alerts,
                   writer, call, workers, cache, out, sinceList, alertsOut,
                   redis, schema, adding, favOut>>

\* remove_user: DELETE FROM users WHERE id = ?; nothing cascades
RemoveUser(u) ==
    /\ writer = 0
    /\ users' = {r \in users : r.id # u}
    /\ UNCHANGED <<userSeq, media, mediaSeq, favoritesTable, favorites, reviews, alerts,
                   writer, call, workers, cache, out, sinceList, alertsOut,
                   redis, schema, adding, favOut>>

\* the table of init.py: type has CHECK (type IN ('Movie', 'WebShow', 'Song'))
\* and title is not UNIQUE
MediaCheckFails(title, type) == type \notin {"Movie", "WebShow", "Song"}

\* the table of media_review.py: title is UNIQUE and type is unchecked
MediaUniqueFails(title, type) == TitleExists(title)

\* CREATE TABLE IF NOT EXISTS: the table is the one of the script that ran first
MediaInsertFails(title, type) ==
    IF schema = "init" THEN MediaCheckFails(title, type)
    ELSE MediaUniqueFails(title, type)

\* add_media, with no other writer between its SELECT and its INSERT: the type
\* is checked, then the title, then the row is inserted; an INSERT that fails
\* is caught and reported
AddMedia(title, type) ==
    /\ writer = 0
    /\ mediaSeq < MaxMedia
    /\ IF type \notin ValidTypes \/ TitleExists(title) \/ MediaInsertFails(title, type)
       THEN UNCHANGED <<media, mediaSeq>>
       ELSE /\ media' = media \cup {[id |-> mediaSeq + 1, title |-> title, type |-> type]}
            /\ mediaSeq' = mediaSeq + 1
    /\ UNCHANGED <<users, userSeq, favoritesTable, favorites, reviews, alerts,
                   writer, call, workers, cache, out, sinceList, alertsOut,
                   redis, schema, adding, favOut>>

\* add_media, in two steps, for calls that run at the same time.  Lines
\* 136-145: the type check and the SELECT on the title, which holds no lock
\* once it has returned; a call that passes both goes on to its INSERT
AddMediaSelect(title, type) ==
    /\ Len(adding) < MaxAdding
    /\ mediaSeq + Len(adding) < MaxMedia
    /\ adding' = IF type \notin ValidTypes \/ TitleExists(title)
                 THEN adding
                 ELSE Append(adding, [title |-> title, type |-> type])
    /\ UNCHANGED <<users, userSeq, media, mediaSeq, favoritesTable, favorites, reviews,
                   alerts, writer, call, workers, cache, out, sinceList, alertsOut,
                   redis, schema, favOut>>

\* lines 147-148 and __exit__: the INSERT and its commit; an INSERT that fails
\* is caught at line 151 and nothing is written
AddMediaInsert(k) ==
    /\ k \in DOMAIN adding
    /\ writer = 0
    /\ IF MediaInsertFails(adding[k].title, adding[k].type)
       THEN UNCHANGED <<media, mediaSeq>>
       ELSE /\ media' = media \cup {[id |-> mediaSeq + 1, title |-> adding[k].title,
                                      type |-> adding[k].type]}
            /\ mediaSeq' = mediaSeq + 1
    /\ adding' = SubSeq(adding, 1, k - 1) \o SubSeq(adding, k + 1, Len(adding))
    /\ UNCHANGED <<users, userSeq, favoritesTable, favorites, reviews, alerts,
                   writer, call, workers, cache, out, sinceList, alertsOut,
                   redis, schema, favOut>>

\* remove_media: DELETE FROM media WHERE id = ?; nothing cascades
RemoveMedia(m) ==
    /\ writer = 0
    /\ media' = {r \in media : r.id # m}
    /\ UNCHANGED <<users, userSeq, mediaSeq, favoritesTable, favorites, reviews, alerts,
                   writer, call, workers, cache, out, sinceList, alertsOut,
                   redis, schema, adding, favOut>>

\* mutant: the table without its UNIQUE clause
FavoriteConflictNever(u, m) == FALSE

\* init.py line 47: UNIQUE(user_id, media_id) ON CONFLICT IGNORE
FavoriteConflict(u, m) == FavoriteExists(u, m)

\* the INSERT raises "no such table" until init.py has run
AddFavoriteRaises == ~favoritesTable

\* add_favorite: a plain INSERT; a conflicting row is ignored without an error
AddFavorite(u, m) ==
    /\ writer = 0
    /\ Len(favorites) < MaxFavorites \/ FavoriteExists(u, m)
    /\ IF AddFavoriteRaises
       THEN favorites' = favorites /\ favOut' = "raised"
       ELSE IF FavoriteConflict(u, m)
       THEN favorites' = favorites /\ favOut' = "ignored"
       ELSE /\ favorites' = Append(favorites,
                   [id |-> Len(favorites) + 1, user_id |-> u, media_id |-> m])
            /\ favOut' = "added"
    /\ UNCHANGED <<users, userSeq, media, mediaSeq, favoritesTable, reviews, alerts,
                   writer, call, workers, cache, out, sinceList, alertsOut, redis,
                   schema, adding>>

(***************************************************************************)
(* list_media, get_alerts, the passing of time                             *)
(***************************************************************************)
\* mutant: the test on the limit inverted
CacheHitBounded(limit) == CacheGet("media_list") # <<>> /\ limit # "all"

\* line 187: `if cached_media and limit == "all"`
CacheHit(limit) == CacheGet("media_list") # <<>> /\ limit = "all"

\* line 219: the entry is written after every listing that was rendered
CacheAfterListing(limit, text) == CacheSet("media_list", text, TTL)

\* line 185 is outside any try: a get that raises ends the call before anything
\* is printed; line 219 likewise: a set that raises ends it after the table was
\* printed
ListMedia(limit) ==
    /\ sinceList' = 0
    /\ IF CacheGetRaises
       THEN /\ out' = [limit |-> limit, kind |-> "get_error", text |-> <<>>]
            /\ cache' = cache
       ELSE IF CacheHit(limit)
       THEN /\ out' = [limit |-> limit, kind |-> "cache", text |-> CacheGet("media_list")]
            /\ cache' = cache
       ELSE LET results == LimitedQuery(limit, media, reviews)
            IN IF results = <<>>
               THEN /\ out' = [limit |-> limit, kind |-> "empty", text |-> <<>>]
                    /\ cache' = cache
               ELSE IF RenderRaises(results)
               THEN /\ out' = [limit |-> limit, kind |-> "raise", text |-> <<>>]
                    /\ cache' = cache
               ELSE IF CacheSetRaises
               THEN /\ out' = [limit |-> limit, kind |-> "set_error", text |-> Tabulate(results)]
                    /\ cache' = cache
               ELSE /\ out' = [limit |-> limit, kind |-> "db", text |-> Tabulate(results)]
                    /\ cache' = CacheAfterListing(limit, Tabulate(results))
    /\ UNCHANGED <<users, userSeq, media, mediaSeq, favoritesTable, favorites, reviews,
                   alerts, writer, call, workers, alertsOut, redis, schema, adding, favOut>>

\* get_alerts: SELECT alert FROM alerts WHERE user_id = ?
AlertsOf(u) ==
    LET mine == SelectSeq(alerts, LAMBDA a : a.user_id = u)
    IN [i \in DOMAIN mine |-> mine[i].alert]

GetAlerts(u) ==
    /\ alertsOut' = AlertsOf(u)
    /\ UNCHANGED <<users, userSeq, media, mediaSeq, favoritesTable, favorites, reviews,
                   alerts, writer, call, workers, cache, out, sinceList,
                   redis, schema, adding, favOut>>

Tick ==
    /\ cache' = Expire(cache, TickStep)
    /\ sinceList' = Min(sinceList + TickStep, TTL)
    /\ UNCHANGED <<users, userSeq, media, mediaSeq, favoritesTable, favorites, reviews,
                   alerts, writer, call, workers, out, alertsOut, redis, schema, adding, favOut>>

\* the Redis server stops, fills up or comes back; its keyspace is kept
RedisFault(s) ==
    /\ redis' = s
    /\ UNCHANGED <<users, userSeq, media, mediaSeq, favoritesTable, favorites, reviews,
                   alerts, writer, call, workers, cache, out, sinceList, alertsOut,
                   schema, adding, favOut>>

(***************************************************************************)
(* add_review: the main thread                                             *)
(***************************************************************************)
NewWorker(item) ==
    [pc |-> "insert", media_id |-> item.media_id, rating |-> item.rating,
     comment |-> item.comment, exc |-> FALSE, review |-> <<>>, favs |-> <<>>,
     pending |-> <<>>]

\* lines 224-229: the up-front check, in a transaction of its own
AddReview(u, items) ==
    /\ call.pc = "idle"
    /\ Len(reviews) + Len(items) <= MaxReviews
    /\ workers' = <<>>
    /\ call' = IF ~UserExists(u)
               THEN [NoCall EXCEPT !.ret = "invalid"]
               ELSE IF items = <<>>
               THEN [NoCall EXCEPT !.ret = "ok"]
               ELSE [pc |-> "spawn", ret |-> "none", user_id |-> u,
                     items |-> items, i |-> 1, base |-> Len(reviews)]
    /\ UNCHANGED <<users, userSeq, media, mediaSeq, favoritesTable, favorites, reviews,
                   alerts, writer, cache, out, sinceList, alertsOut, redis, schema, adding, favOut>>

\* lines 253-257: one thread per item, started in order
StartThread ==
    /\ call.pc = "spawn"
    /\ workers' = Append(workers, NewWorker(call.items[call.i]))
    /\ call' = IF call.i = Len(call.items)
               THEN [call EXCEPT !.pc = "join", !.i = 1]
               ELSE [call EXCEPT !.i = call.i + 1]
    /\ UNCHANGED <<users, userSeq, media, mediaSeq, favoritesTable, favorites, reviews,
                   alerts, writer, cache, out, sinceList, alertsOut, redis, schema, adding, favOut>>

\* mutant: the main thread does not wait
ThreadFinishedNoWait(i) == TRUE

\* thread.join() returns once the thread has ended, normally or by an exception
ThreadFinished(i) == workers[i].pc \in {"done", "raised"}

\* lines 259-260: join every thread, in order; then add_review returns and
\* its frame and threads are gone
JoinThread ==
    /\ call.pc = "join"
    /\ ThreadFinished(call.i)
    /\ IF call.i = Len(call.items)
       THEN call' = [NoCall EXCEPT !.ret = "ok"] /\ workers' = <<>>
       ELSE call' = [call EXCEPT !.i = call.i + 1] /\ workers' = workers
    /\ UNCHANGED <<users, userSeq, media, mediaSeq, favoritesTable, favorites, reviews,
                   alerts, writer, cache, out, sinceList, alertsOut, redis, schema, adding, favOut>>

(***************************************************************************)
(* add_review: review_task, one thread per item                            *)
(***************************************************************************)
\* line 243
AlertMessage(u, m) == <<"User ", u, " added a review for media ID ", m, ".">>

\* the table of init.py: user_id and media_id are NOT NULL and rating has
\* CHECK (rating BETWEEN 1 AND 5), which a NULL passes
ReviewCheckFails(u, m, rating) ==
    u = NoneVal \/ m = NoneVal \/ (rating # NoneVal /\ rating \notin 1..5)

\* the table of media_review.py: user_id, media_id and rating are NOT NULL
ReviewNotNullFails(u, m, rating) == u = NoneVal \/ m = NoneVal \/ rating = NoneVal

\* CREATE TABLE IF NOT EXISTS: the table is the one of the script that ran first
ReviewInsertFails(u, m, rating) ==
    IF schema = "init" THEN ReviewCheckFails(u, m, rating)
    ELSE ReviewNotNullFails(u, m, rating)

\* lines 234-235: the INSERT takes the write lock; the row is uncommitted
WorkerInsert(w) ==
    /\ w \in DOMAIN workers
    /\ workers[w].pc = "insert"
    /\ writer = 0
    /\ writer' = w
    /\ workers' = IF ReviewInsertFails(call.user_id, workers[w].media_id, workers[w].rating)
                  THEN [workers EXCEPT ![w].pc = "exit", ![w].exc = TRUE]
                  ELSE [workers EXCEPT ![w].pc = "select",
                            ![w].review = <<[id |-> Len(reviews) + 1,
                                             user_id |-> call.user_id,
                                             media_id |-> workers[w].media_id,
                                             rating |-> workers[w].rating,
                                             comment |-> workers[w].comment]>>]
    /\ UNCHANGED <<users, userSeq, media, mediaSeq, favoritesTable, favorites, reviews,
                   alerts, call, cache, out, sinceList, alertsOut, redis, schema, adding, favOut>>

\* mutant: the SELECT without its WHERE clause
FavoriteUsersAnyMedia(m) == [i \in DOMAIN favorites |-> favorites[i].user_id]

\* lines 238-240: SELECT user_id FROM favorites WHERE media_id = ?
FavoriteUsers(m) ==
    LET rows == SelectSeq(favorites, LAMBDA f : f.media_id = m)
    IN [i \in DOMAIN rows |-> rows[i].user_id]

WorkerSelect(w) ==
    /\ w \in DOMAIN workers
    /\ workers[w].pc = "select"
    /\ workers' = IF ~favoritesTable
                  THEN [workers EXCEPT ![w].pc = "exit", ![w].exc = TRUE]
                  ELSE [workers EXCEPT ![w].pc = "alerts",
                            ![w].favs = FavoriteUsers(workers[w].media_id)]
    /\ UNCHANGED <<users, userSeq, media, mediaSeq, favoritesTable, favorites, reviews,
                   alerts, writer, call, cache, out, sinceList, alertsOut,
                   redis, schema, adding, favOut>>

\* mutant: the loop without its `if`
RecipientsUnfiltered(favs, u) == favs

\* line 245: `if fav_user_id != user_id`
Recipients(favs, u) == SelectSeq(favs, LAMBDA f : f # u)

\* lines 243-247: one alert row per recipient, uncommitted
NewAlerts(favs, u, m) ==
    LET to == Recipients(favs, u)
    IN [i \in DOMAIN to |->
          [id |-> Len(alerts) + i, user_id |-> to[i], alert |-> AlertMessage(u, m)]]

\* mutant: the alert INSERTs run on a connection that commits each statement
WorkerAlertsAutocommit(w) ==
    /\ w \in DOMAIN workers
    /\ workers[w].pc = "alerts"
    /\ workers' = [workers EXCEPT ![w].pc = "exit"]
    /\ alerts' = alerts \o NewAlerts(workers[w].favs, call.user_id, workers[w].media_id)
    /\ UNCHANGED <<users, userSeq, media, mediaSeq, favoritesTable, favorites, reviews,
                   writer, call, cache, out, sinceList, alertsOut, redis, schema, adding, favOut>>

WorkerAlerts(w) ==
    /\ w \in DOMAIN workers
    /\ workers[w].pc = "alerts"
    /\ workers' = [workers EXCEPT ![w].pc = "exit",
                       ![w].pending = NewAlerts(workers[w].favs, call.user_id,
                                                workers[w].media_id)]
    /\ UNCHANGED <<users, userSeq, media, mediaSeq, favoritesTable, favorites, reviews,
                   alerts, writer, call, cache, out, sinceList, alertsOut,
                   redis, schema, adding, favOut>>

\* DatabaseConnection.__exit__ (lines 21-23): commit and close, whether or not
\* the block raised; the exception, if any, then ends the thread
CommittedReviews(wk) == wk.review

CommittedAlerts(wk) == wk.pending

\* mutant: the threads share one connection, and the close() of a worker that
\* raised ends the transactions of the workers still running
WorkerExitClosingShared(w) ==
    /\ w \in DOMAIN workers
    /\ workers[w].pc = "exit"
    /\ reviews' = reviews \o CommittedReviews(workers[w])
    /\ alerts' = alerts \o CommittedAlerts(workers[w])
    /\ writer' = 0
    /\ workers' = [k \in DOMAIN workers |->
                     IF k = w
                     THEN [workers[k] EXCEPT !.pc = IF workers[w].exc THEN "raised" ELSE "done"]
                     ELSE IF workers[w].exc /\ workers[k].pc \notin {"done", "raised"}
                     THEN [workers[k] EXCEPT !.pc = "raised", !.exc = TRUE]
                     ELSE workers[k]]
    /\ UNCHANGED <<users, userSeq, media, mediaSeq, favoritesTable, favorites, call,
                   cache, out, sinceList, alertsOut, redis, schema, adding, favOut>>

\* mutant: the commit of a review deletes the cached listing
WorkerExitInvalidating(w) ==
    /\ w \in DOMAIN workers
    /\ workers[w].pc = "exit"
    /\ reviews' = reviews \o CommittedReviews(workers[w])
    /\ alerts' = alerts \o CommittedAlerts(workers[w])
    /\ writer' = 0
    /\ workers' = [workers EXCEPT ![w].pc = IF workers[w].exc THEN "raised" ELSE "done"]
    /\ cache' = IF CommittedReviews(workers[w]) = <<>> THEN cache
                ELSE {e \in cache : e.key # "media_list"}
    /\ UNCHANGED <<users, userSeq, media, mediaSeq, favoritesTable, favorites, call,
                   out, sinceList, alertsOut, redis, schema, adding, favOut>>

WorkerExit(w) ==
    /\ w \in DOMAIN workers
    /\ workers[w].pc = "exit"
    /\ reviews' = reviews \o CommittedReviews(workers[w])
    /\ alerts' = alerts \o CommittedAlerts(workers[w])
    /\ writer' = 0
    /\ workers' = [workers EXCEPT ![w].pc = IF workers[w].exc THEN "raised" ELSE "done"]
    /\ UNCHANGED <<users, userSeq, media, mediaSeq, favoritesTable, favorites, call,
                   cache, out, sinceList, alertsOut, redis, schema, adding, favOut>>

(***************************************************************************)
(* Specifications                                                          *)
(*                                                                         *)
(* Spec: the review pipeline.  It starts after add_media("A", "Movie"),    *)
(* add_media("B", "Movie") and list_media("all") on the fresh database, so *)
(* both media ids exist and the cache holds the listing; users, favorites  *)
(* and reviews then change under every interleaving with the workers.      *)
(*                                                                         *)
(* SpecCatalog: the catalog listing and its cache.  It starts after        *)
(* init.py and add_user("ann", "pw") on the fresh database; media are then *)
(* added, removed, reviewed and listed while time passes.                  *)
(***************************************************************************)
CatalogAB ==
    {[id |-> 1, title |-> "A", type |-> "Movie"], [id |-> 2, title |-> "B", type |-> "Movie"]}

Init ==
    /\ users = {}
    /\ userSeq = 0
    /\ media = CatalogAB
    /\ mediaSeq = 2
    /\ favoritesTable = FALSE
    /\ favorites = <<>>
    /\ reviews = <<>>
    /\ alerts = <<>>
    /\ writer = 0
    /\ call = NoCall
    /\ workers = <<>>
    /\ cache = {[key |-> "media_list",
                 value |-> Tabulate(CatalogQuery(CatalogAB, <<>>)), ttl |-> TTL]}
    /\ out = [limit |-> "all", kind |-> "db",
              text |-> Tabulate(CatalogQuery(CatalogAB, <<>>))]
    /\ sinceList = 0
    /\ alertsOut = <<>>
    /\ redis = "up"
    /\ schema = "media_review"
    /\ adding = <<>>
    /\ favOut = "none"

Next ==
    \/ RunInitPy
    \/ \E name \in Usernames, pw \in Passwords : AddUser(name, pw)
    \/ \E u \in UserIds : RemoveUser(u)
    \/ \E u \in UserIds, m \in MediaIds : AddFavorite(u, m)
    \/ \E u \in UserIds : GetAlerts(u)
    \/ \E u \in UserIds, items \in Batches : AddReview(u, items)
    \/ StartThread
    \/ JoinThread
    \/ \E w \in 1..MaxBatch : WorkerInsert(w)
    \/ \E w \in 1..MaxBatch : WorkerSelect(w)
    \/ \E w \in 1..MaxBatch : WorkerAlerts(w)
    \/ \E w \in 1..MaxBatch : WorkerExit(w)

Spec == Init /\ [][Next]_vars

InitCatalog ==
    /\ users = {[id |-> 1, username |-> "ann", password |-> "pw"]}
    /\ userSeq = 1
    /\ media = {}
    /\ mediaSeq = 0
    /\ favoritesTable = TRUE
    /\ favorites = <<>>
    /\ reviews = <<>>
    /\ alerts = <<>>
    /\ writer = 0
    /\ call = NoCall
    /\ workers = <<>>
    /\ cache = {}
    /\ out = NoOutput
    /\ sinceList = TTL
    /\ alertsOut = <<>>
    /\ redis = "up"
    /\ schema = "media_review"
    /\ adding = <<>>
    /\ favOut = "none"

NextCatalog ==
    \/ \E title \in Titles, type \in Types : AddMedia(title, type)
    \/ \E m \in MediaIds : RemoveMedia(m)
    \/ \E limit \in Limits : ListMedia(limit)
    \/ Tick
    \/ \E u \in UserIds, items \in Batches : AddReview(u, items)
    \/ StartThread
    \/ JoinThread
    \/ \E w \in 1..MaxBatch : WorkerInsert(w)
    \/ \E w \in 1..MaxBatch : WorkerSelect(w)
    \/ \E w \in 1..MaxBatch : WorkerAlerts(w)
    \/ \E w \in 1..MaxBatch : WorkerExit(w)

SpecCatalog == InitCatalog /\ [][NextCatalog]_vars

\* SpecFault: the catalog listing while the Redis server fails and recovers.
NextFault ==
    \/ \E title \in Titles, type \in Types : AddMedia(title, type)
    \/ \E m \in MediaIds : RemoveMedia(m)
    \/ \E limit \in Limits : ListMedia(limit)
    \/ Tick
    \/ \E s \in RedisStates : RedisFault(s)

SpecFault == InitCatalog /\ [][NextFault]_vars

\* SpecRatings: the review pipeline for every rating from 0 to 6, starting as
\* SpecCatalog does.
NextRatings ==
    \/ \E u \in UserIds, items \in BatchesTried : AddReview(u, items)
    \/ StartThread
    \/ JoinThread
    \/ \E w \in 1..MaxBatch : WorkerInsert(w)
    \/ \E w \in 1..MaxBatch : WorkerSelect(w)
    \/ \E w \in 1..MaxBatch : WorkerAlerts(w)
    \/ \E w \in 1..MaxBatch : WorkerExit(w)

SpecRatings == InitCatalog /\ [][NextRatings]_vars

\* SpecInitFirst: the catalog when init.py has created the tables before
\* media_review.py is first imported, with add_media calls running at the same
\* time.
InitFirst ==
    /\ users = {}
    /\ userSeq = 0
    /\ media = {}
    /\ mediaSeq = 0
    /\ favoritesTable = TRUE
    /\ favorites = <<>>
    /\ reviews = <<>>
    /\ alerts = <<>>
    /\ writer = 0
    /\ call = NoCall
    /\ workers = <<>>
    /\ cache = {}
    /\ out = NoOutput
    /\ sinceList = TTL
    /\ alertsOut = <<>>
    /\ redis = "up"
    /\ schema = "init"
    /\ adding = <<>>
    /\ favOut = "none"

NextInitFirst ==
    \/ \E title \in Titles, type \in Types : AddMediaSelect(title, type)
    \/ \E k \in 1..MaxAdding : AddMediaInsert(k)
    \/ \E m \in MediaIds : RemoveMedia(m)
    \/ \E limit \in Limits : ListMedia(limit)
    \/ Tick
    \/ \E name \in Usernames, pw \in Passwords : AddUser(name, pw)

SpecInitFirst == InitFirst /\ [][NextInitFirst]_vars

\* Every operation from the fresh database: both initial states above are
\* states of this specification.
NextAll == Next \/ NextCatalog

SpecAll == Fresh /\ [][NextAll]_vars

(***************************************************************************)
(* Properties of the review pipeline (checked under Spec)                  *)
(***************************************************************************)
UserAbsent(u) == \A r \in users : r.id # u

\* the step in which add_review returns to its caller
Returns == call.pc = "join" /\ call'.pc = "idle"

\* the step in which worker w leaves its `with` block and a review row appears
CommitsReview(w) == writer = w /\ writer' = 0 /\ Len(reviews') = Len(reviews) + 1

\* C1: add_review for a user id that is not in users returns from its up-front
\* check: no thread is started, and reviews, alerts and the cache are as before.
C1_InvalidUserFailsFast ==
    [][\A u \in UserIds, items \in Batches :
          (AddReview(u, items) /\ UserAbsent(u))
              => /\ call'.pc = "idle"
                 /\ call'.ret = "invalid"
                 /\ workers' = <<>>
                 /\ reviews' = reviews
                 /\ alerts' = alerts
                 /\ cache' = cache]_vars

C1_Witness ==
    /\ call.ret = "invalid"
    /\ workers = <<>>
    /\ reviews # <<>>
    /\ alerts # <<>>
    /\ cache # {}

\* C2: a worker that commits a review by A for M appends to alerts exactly one
\* row for each user B # A with a favorites row (B, M), each with the message
\* "User A added a review for media ID M.", and nothing else; a second unit for
\* the same M does the same again.
C2_OneAlertPerFavoriter ==
    [][\A w \in 1..MaxBatch :
          CommitsReview(w) =>
              LET A == call.user_id
                  M == workers[w].media_id
                  added == SubSeq(alerts', Len(alerts) + 1, Len(alerts'))
              IN /\ Len(alerts') >= Len(alerts)
                 /\ SubSeq(alerts', 1, Len(alerts)) = alerts
                 /\ \A i \in DOMAIN added :
                        /\ added[i].alert = <<"User ", A, " added a review for media ID ", M, ".">>
                        /\ added[i].id = Len(alerts) + i
                 /\ \A B \in UserIds \cup {favorites[j].user_id : j \in DOMAIN favorites} :
                        Cardinality({i \in DOMAIN added : added[i].user_id = B})
                            = IF B # A /\ FavoriteExists(B, M) THEN 1 ELSE 0
                 /\ \A i \in DOMAIN added : FavoriteExists(added[i].user_id, M)]_vars

\* two committed units of user A for the same media M, and two alerts for B
C2_Witness ==
    \E B \in UserIds, i, j \in DOMAIN alerts :
        /\ i < j
        /\ alerts[i].user_id = B
        /\ alerts[j].user_id = B
        /\ alerts[i].alert = alerts[j].alert
        /\ Len(reviews) = 2
        /\ reviews[1].media_id = reviews[2].media_id
        /\ reviews[1].user_id = reviews[2].user_id

\* C3: no alert row, committed or still in a worker's transaction, has as its
\* recipient the user its message names as the reviewer.
C3_NoSelfAlert ==
    /\ \A i \in DOMAIN alerts : alerts[i].user_id # alerts[i].alert[2]
    /\ \A w \in DOMAIN workers : \A i \in DOMAIN workers[w].pending :
           workers[w].pending[i].user_id # workers[w].pending[i].alert[2]

\* a worker whose reviewer has favorited the media, with alerts for the others
C3_Witness ==
    \E w \in DOMAIN workers :
        /\ workers[w].pc = "exit"
        /\ \E i \in DOMAIN workers[w].favs : workers[w].favs[i] = call.user_id
        /\ workers[w].pending # <<>>

\* C4 (as claimed): once a worker has ended by an exception, neither the review
\* row nor any alert row of its transaction is in the store.
C4_FailedUnitLeavesNothing ==
    \A w \in DOMAIN workers :
        workers[w].pc = "raised" =>
            /\ \A k \in DOMAIN workers[w].review :
                   \A i \in DOMAIN reviews : reviews[i] # workers[w].review[k]
            /\ \A k \in DOMAIN workers[w].pending :
                   \A i \in DOMAIN alerts : alerts[i] # workers[w].pending[k]

\* the review row of item k of the call in flight is among the rows committed
\* since the call began
ItemCommitted(k) ==
    Cardinality({i \in (call.base + 1)..Len(reviews) :
                    /\ reviews[i].user_id = call.user_id
                    /\ reviews[i].media_id = call.items[k].media_id
                    /\ reviews[i].rating = call.items[k].rating
                    /\ reviews[i].comment = call.items[k].comment}) >= 1

\* C5: a failed worker does not touch its siblings.  The write lock is never
\* left with a thread that has ended, so no sibling waits forever; and when
\* add_review returns, every item had its own thread, every thread has ended,
\* every item whose own INSERT is valid has its review row committed, and
\* every thread that did not raise has its alert rows committed.
C5_SiblingsUnaffected ==
    /\ [](writer # 0 =>
            /\ writer \in DOMAIN workers
            /\ workers[writer].pc \in {"select", "alerts", "exit"})
    /\ [][Returns =>
            /\ Len(workers) = Len(call.items)
            /\ \A w \in DOMAIN workers :
                  /\ workers[w].media_id = call.items[w].media_id
                  /\ workers[w].rating = call.items[w].rating
                  /\ workers[w].pc \in {"done", "raised"}
                  /\ call.items[w].rating # NoneVal => ItemCommitted(w)
                  /\ workers[w].pc = "raised" /\ call.items[w].rating # NoneVal
                        => workers[w].favs = <<>> /\ workers[w].pending = <<>>
                  /\ workers[w].pc = "done" =>
                        \A k \in DOMAIN workers[w].pending :
                            \E i \in DOMAIN alerts : alerts[i] = workers[w].pending[k]]_vars

\* the first worker has failed at its INSERT, the second has committed its
\* review and an alert, and the call is about to return
C5_Witness ==
    /\ call.pc = "join"
    /\ Len(workers) = 2
    /\ workers[1].pc = "raised"
    /\ workers[1].rating = NoneVal
    /\ workers[2].pc = "done"
    /\ workers[2].pending # <<>>
    /\ ItemCommitted(2)
    /\ \E i \in DOMAIN alerts : alerts[i] = workers[2].pending[1]

ValidBatch ==
    /\ \A k \in DOMAIN call.items :
          /\ call.items[k].rating \in 1..5
          /\ \E r \in media : r.id = call.items[k].media_id
    /\ \A k, l \in DOMAIN call.items :
          k # l => call.items[k].media_id # call.items[l].media_id

\* C6: add_review returns only when every thread it started has ended; for a
\* batch of N items naming N distinct existing media with ratings in 1..5,
\* exactly N review rows, one per item, have been committed since the call
\* began.
C6_JoinAll ==
    [][Returns =>
          /\ Len(workers) = Len(call.items)
          /\ \A w \in DOMAIN workers : workers[w].pc \in {"done", "raised"}
          /\ writer = 0
          /\ ValidBatch =>
                /\ Len(reviews') = call.base + Len(call.items)
                /\ \A k \in DOMAIN call.items : ItemCommitted(k)]_vars

\* a batch of two items for two distinct media, both committed, at the last join
C6_Witness ==
    /\ call.pc = "join"
    /\ call.i = 2
    /\ Len(call.items) = 2
    /\ ValidBatch
    /\ \A w \in DOMAIN workers : workers[w].pc \in {"done", "raised"}
    /\ Len(reviews) = call.base + 2

ReviewCommitted(u, m) ==
    \E j \in DOMAIN reviews : reviews[j].user_id = u /\ reviews[j].media_id = m

\* C7: every alert row in the committed table, and every alert a get_alerts
\* call has read, names a reviewer A and a media id M for which a review row is
\* committed; and a worker holds uncommitted alerts only after its own review
\* INSERT.
C7_AlertNeverBeforeReview ==
    /\ \A i \in DOMAIN alerts : ReviewCommitted(alerts[i].alert[2], alerts[i].alert[4])
    /\ \A k \in DOMAIN alertsOut : ReviewCommitted(alertsOut[k][2], alertsOut[k][4])
    /\ \A w \in DOMAIN workers :
          workers[w].pending # <<>> =>
              /\ workers[w].review # <<>>
              /\ workers[w].pc \in {"exit", "done", "raised"}

\* a reader has seen an alert while another worker holds alerts not yet committed
C7_Witness ==
    /\ alertsOut # <<>>
    /\ \E w \in DOMAIN workers :
          /\ workers[w].pc = "exit"
          /\ workers[w].pending # <<>>
          /\ \A i \in DOMAIN alerts : alerts[i] # workers[w].pending[1]

(***************************************************************************)
(* Properties of the favorites (checked under Spec)                        *)
(***************************************************************************)
\* C13: add_favorite is idempotent: after every add_favorite call the table
\* favorites holds at most one row per (user_id, media_id) pair, and an
\* add_favorite(u, m) for a pair that is already a row ends without an error
\* and leaves the table as it was.
C13_AddFavoriteIdempotent ==
    [][\A u \in UserIds, m \in MediaIds :
          AddFavorite(u, m)
          => /\ \A i, j \in DOMAIN favorites' :
                   (/\ favorites'[i].user_id = favorites'[j].user_id
                    /\ favorites'[i].media_id = favorites'[j].media_id) => i = j
             /\ (\E i \in DOMAIN favorites :
                    favorites[i].user_id = u /\ favorites[i].media_id = m)
                   => favorites' = favorites /\ favOut' # "raised"]_vars

\* an add_favorite call has been repeated for a pair that was already a row
C13_Witness ==
    /\ favOut = "ignored"
    /\ Len(favorites) = MaxFavorites

\* C17: deleting a user cascades: when remove_user(u) has completed for an
\* existing u, no row of reviews, alerts or favorites has user_id = u.
C17_RemoveUserCascades ==
    [][\A u \in UserIds :
          (RemoveUser(u) /\ \E r \in users : r.id = u)
          => /\ \A i \in DOMAIN reviews' : reviews'[i].user_id # u
             /\ \A i \in DOMAIN alerts' : alerts'[i].user_id # u
             /\ \A i \in DOMAIN favorites' : favorites'[i].user_id # u]_vars

(***************************************************************************)
(* Properties of the catalog listing and its cache (checked under          *)
(* SpecCatalog)                                                            *)
(***************************************************************************)
\* what a listing of the whole catalog prints from the store as it is now
CurrentListing ==
    IF CatalogQuery(media, reviews) = <<>> THEN <<>>
    ELSE Tabulate(CatalogQuery(media, reviews))

\* C8 (as claimed): list_media(N) is never served from the cache and leaves
\* the "media_list" entry as it was.
C8_BoundedListingLeavesCache ==
    [][\A limit \in Limits \ {"all"} :
          ListMedia(limit) => out'.kind # "cache" /\ cache' = cache]_vars

\* C9 (as claimed): a list_media("all") less than 60 time-units after the
\* previous list_media("all") prints what that call printed, without a query.
C9_SecondCallRepeatsFirst ==
    [][(/\ ListMedia("all")
        /\ out.limit = "all"
        /\ out.kind \in {"cache", "db", "empty"}
        /\ sinceList < TTL)
          => out'.kind = "cache" /\ out'.text = out.text]_vars

\* C9 (amended): a list_media("all") less than 60 time-units after a
\* list_media("all") that queried the store and wrote the entry, with no
\* list_media call in between, prints what that call printed, without a query.
C9_SecondCallRepeatsWriter ==
    [][(/\ ListMedia("all")
        /\ out.limit = "all"
        /\ out.kind = "db"
        /\ sinceList < TTL)
          => /\ out'.kind = "cache"
             /\ out'.text = out.text
             /\ cache' = cache]_vars

\* the second call has printed the cached listing although the store has changed
C9_Witness ==
    /\ out.limit = "all"
    /\ out.kind = "cache"
    /\ sinceList < TTL
    /\ out.text = CacheGet("media_list")
    /\ out.text # CurrentListing

\* C10 (as claimed): an entry is served only while less than 60 time-units
\* old; once its time has run out, the next list_media("all") queries the
\* store and prints the listing of the store's current contents.
C10_ExpiredEntryIsRefreshed ==
    [][ListMedia("all") =>
          /\ out'.kind = "cache" =>
                \E e \in cache : e.key = "media_list" /\ e.ttl > 0 /\ e.value = out'.text
          /\ (\E e \in cache : e.key = "media_list" /\ e.ttl = 0) =>
                /\ out'.kind \in {"db", "empty"}
                /\ out'.text = CurrentListing]_vars

(***************************************************************************)
(* Properties of the listing under cache failures (checked under SpecFault)*)
(***************************************************************************)
\* C11: a failure of the cache get or of the cache set during list_media is
\* never fatal: whenever the Redis server is not up, list_media(limit), for a
\* bounded and for an unbounded limit, ends without a cache error, and a call
\* that has to build the listing prints the listing built from the store.
C11_CacheFailureNotFatal ==
    [][\A limit \in Limits :
          ListMedia(limit) /\ redis # "up"
          => /\ out'.kind \notin {"get_error", "set_error"}
             /\ out'.kind = "db" => out'.text = Tabulate(LimitedQuery(limit, media, reviews))]_vars

(***************************************************************************)
(* Properties of the catalog under reviews (checked under SpecCatalog)     *)
(***************************************************************************)
\* C12 (as claimed): a review unit that commits invalidates the cached
\* listing: after the commit the cache holds no live "media_list" entry, every
\* such entry having been computed before the commit.
C12_CommitInvalidatesCache ==
    [][\A w \in 1..MaxBatch :
          CommitsReview(w) => ~\E e \in cache' : e.key = "media_list" /\ Live(e)]_vars

\* C12 (amended): a review unit that commits leaves the cache as it is, and a
\* list_media("all") that finds a live "media_list" entry prints that entry,
\* whatever has been committed since it was written.
C12_CommitLeavesCache ==
    [][/\ \A w \in 1..MaxBatch : CommitsReview(w) => cache' = cache
       /\ (ListMedia("all") /\ CacheGet("media_list") # <<>>)
             => /\ out'.kind = "cache"
                /\ out'.text = CacheGet("media_list")
                /\ cache' = cache]_vars

\* list_media("all") has printed "No Ratings", from the cache, for a media item
\* that has a committed review
C12_Witness ==
    /\ out.limit = "all"
    /\ out.kind = "cache"
    /\ \E i \in 2..Len(out.text) :
          /\ CountRatings(reviews, out.text[i][1]) > 0
          /\ out.text[i][3] = NoRatings

\* C14: list_media never raises on a catalog that add_media has produced: a
\* call that queries the store prints, for every stored kind (Movie, WebShow,
\* Song, Cartoon), the row "{Kind}: {title}", and no kind makes it raise.
C14_ListingNeverRaises ==
    [][\A limit \in Limits :
          ListMedia(limit)
          => /\ out'.kind # "raise"
             /\ out'.kind = "db" =>
                   \A i \in 2..Len(out'.text) :
                      \E r \in media : /\ r.id = out'.text[i][1]
                                       /\ out'.text[i][2] = <<r.type, ": ", r.title>>]_vars

\* C16: at the moment a review row is inserted, its user_id is the id of a row
\* of users and its media_id the id of a row of media, also for a media id
\* that was never created and under every interleaving with remove_user and
\* remove_media.
C16_InsertReferencesExisting ==
    [][\A w \in 1..MaxBatch :
          (WorkerInsert(w) /\ workers'[w].review # <<>>)
          => /\ \E r \in users : r.id = workers'[w].review[1].user_id
             /\ \E r \in media : r.id = workers'[w].review[1].media_id]_vars

\* the cell `avg` is what the store holds for media item m: "No Ratings"
\* without a committed review, else the quotient of their sum and their number
ReportsStoreAverage(avg, m) ==
    LET mine == {i \in DOMAIN reviews : reviews[i].media_id = m}
    IN IF mine = {}
       THEN avg = <<"No Ratings">>
       ELSE /\ Len(avg) = 2
            /\ avg[1] * Cardinality(mine) = avg[2] * SumRatings(reviews, m)
            /\ (\A i \in mine : reviews[i].rating = 4) => avg = <<4, 1>>

ReportsStore(text) ==
    \A r \in media :
       \E i \in 2..Len(text) : text[i][1] = r.id /\ ReportsStoreAverage(text[i][3], r.id)

\* C18 (as claimed): the listing list_media("all") prints has, for every media
\* item M, a row with "No Ratings" when M has no review and otherwise with the
\* average of M's reviews as they are in the store when the call is made.
C18_ListingReportsStore ==
    [][(ListMedia("all") /\ out'.kind \in {"cache", "db"}) => ReportsStore(out'.text)]_vars

\* C18 (amended): the same of a list_media("all") that found no live
\* "media_list" entry and printed the listing it built from the store.
C18_BuiltListingReportsStore ==
    [][(ListMedia("all") /\ out'.kind = "db") => ReportsStore(out'.text)]_vars

\* list_media("all") has built and printed a listing with one media item
\* rated 4.0 and one without ratings
C18_Witness ==
    /\ out.limit = "all"
    /\ out.kind = "db"
    /\ \E i, j \in 2..Len(out.text) :
          out.text[i][3] = <<4, 1>> /\ out.text[j][3] = NoRatings

\* C19: staleness is bounded by the TTL: whatever list_media("all") prints is
\* the rendering of the complete catalog, with its averages, as the store held
\* it at some instant no more than 60 time-units before the call.  A listing
\* built from the store is the rendering of the store at the call; a listing
\* taken from the cache is an entry less than 60 time-units old; and every
\* entry, when it is written, is the rendering of the complete catalog as the
\* store holds it at that instant.
C19_StalenessBoundedByTTL ==
    [][/\ ListMedia("all") =>
             /\ out'.kind = "db" => out'.text = CurrentListing
             /\ out'.kind = "cache" =>
                   \E e \in cache : e.key = "media_list" /\ e.ttl > 0 /\ e.value = out'.text
       /\ \A e \in cache' :
             (e.key = "media_list" /\ e \notin Expire(cache, TickStep) /\ e \notin cache)
                 => e.ttl = TTL /\ e.value = CurrentListing]_vars

(***************************************************************************)
(* Properties of the stored ratings (checked under SpecRatings)            *)
(***************************************************************************)
\* C15: every review row has a rating in 1..5: add_review with a rating outside
\* 1..5 is rejected before any write, so no committed row carries one.
C15_RatingsInRange == \A i \in DOMAIN reviews : reviews[i].rating \in 1..5

(***************************************************************************)
(* Properties of the media titles (checked under SpecInitFirst)            *)
(***************************************************************************)
\* C20: media titles stay unique: after every step of every interleaving of
\* add_media calls no two rows of media share a title, and an add_media with a
\* title that exists, or with a kind outside Movie, WebShow, Song and Cartoon,
\* leaves media unchanged.
C20_TitlesStayUnique ==
    [][/\ \A r1, r2 \in media' : r1.title = r2.title => r1.id = r2.id
       /\ \A title \in Titles, type \in Types :
             (/\ AddMediaSelect(title, type)
              /\ \/ type \notin {"Movie", "WebShow", "Song", "Cartoon"}
                 \/ \E r \in media : r.title = title)
                 => media' = media /\ adding' = adding]_vars
====
